---- MODULE Spec2Model ----
(***************************************************************************)
(* Chess rules engine of chess_analyzer                                    *)
(* (src/components/st_chessboard.py, src/streamlit_app.py).                *)
(*                                                                         *)
(* The board is board[row][col] with row 0 = rank 8 and col 0 = file a, a  *)
(* piece is the one-letter string of the source ("" = empty, upper case =  *)
(* white).  A coordinate typed by the player is a sequence of one-letter   *)
(* strings (<<"e","2">>).  The fields of st.session_state that the engine  *)
(* reads and writes from inside move generation (last_move, king_moved,    *)
(* rook_moved, captured_pieces) are handed to the operators as the record  *)
(* ss, so that a function can be evaluated on the session a call would     *)
(* see.  The source returns move lists; the consumers only test            *)
(* membership and emptiness, so a move list is the set of its (row, col)   *)
(* pairs.                                                                  *)
(***************************************************************************)
EXTENDS Integers, Sequences, FiniteSets, TLC

VARIABLES chess_board, current_player, selected_square, possible_moves,
          move_history, game_status, last_move, king_moved, rook_moved,
          captured_pieces, outcome

vars == <<chess_board, current_player, selected_square, possible_moves,
          move_history, game_status, last_move, king_moved, rook_moved,
          captured_pieces, outcome>>

Idx == 0..7

\* Python's None: an optional value is <<>> or, for last_move, the
\* one-element sequence holding the record
None == <<>>

DEFAULT_BOARD ==
  [r \in Idx |->
     CASE r = 0 -> [c \in Idx |-> <<"r","n","b","q","k","b","n","r">>[c + 1]]
       [] r = 1 -> [c \in Idx |-> "p"]
       [] r = 6 -> [c \in Idx |-> "P"]
       [] r = 7 -> [c \in Idx |-> <<"R","N","B","Q","K","B","N","R">>[c + 1]]
       [] OTHER -> [c \in Idx |-> ""]]

WhitePieces == {"K", "Q", "R", "B", "N", "P"}

BlackPieces == {"k", "q", "r", "b", "n", "p"}

\* str.lower() on a piece letter
lower(piece) ==
  CASE piece = "K" -> "k" [] piece = "Q" -> "q" [] piece = "R" -> "r"
    [] piece = "B" -> "b" [] piece = "N" -> "n" [] piece = "P" -> "p"
    [] OTHER -> piece

is_white_piece(piece) == piece \in WhitePieces

is_black_piece(piece) == piece \in BlackPieces

is_same_color(piece1, piece2) ==
  IF piece1 = "" \/ piece2 = "" THEN FALSE
  ELSE \/ (is_white_piece(piece1) /\ is_white_piece(piece2))
       \/ (is_black_piece(piece1) /\ is_black_piece(piece2))

\* "white" if is_white_piece(piece) else "black"
piece_color(piece) == IF is_white_piece(piece) THEN "white" ELSE "black"

\* "black" if color == "white" else "white"
opponent(color) == IF color = "white" THEN "black" ELSE "white"

Abs(n) == IF n < 0 THEN -n ELSE n

OnBoard(r, c) == r \in Idx /\ c \in Idx

KingDirections ==
  {<<0, 1>>, <<0, -1>>, <<1, 0>>, <<-1, 0>>, <<1, 1>>, <<1, -1>>, <<-1, 1>>, <<-1, -1>>}

RookDirections == {<<0, 1>>, <<0, -1>>, <<1, 0>>, <<-1, 0>>}

BishopDirections == {<<1, 1>>, <<1, -1>>, <<-1, 1>>, <<-1, -1>>}

KnightOffsets ==
  {<<-2, -1>>, <<-2, 1>>, <<-1, -2>>, <<-1, 2>>, <<1, -2>>, <<1, 2>>, <<2, -1>>, <<2, 1>>}

\* one step to each offset, onto an empty or enemy square
StepMoves(board, row, col, offsets) ==
  {<<row + d[1], col + d[2]>> : d \in
     {e \in offsets :
        /\ OnBoard(row + e[1], col + e[2])
        /\ \/ board[row + e[1]][col + e[2]] = ""
           \/ ~is_same_color(board[row][col], board[row + e[1]][col + e[2]])}}

RECURSIVE Ray(_, _, _, _, _, _, _)

\* the loop "for i in range(1, 8)" of one direction (dr, dc), from step i on:
\* every square up to the first occupied one, that one included when it
\* holds an enemy piece
Ray(board, row, col, dr, dc, i, piece) ==
  IF i > 7 \/ ~OnBoard(row + dr * i, col + dc * i) THEN {}
  ELSE IF board[row + dr * i][col + dc * i] = ""
  THEN {<<row + dr * i, col + dc * i>>} \cup Ray(board, row, col, dr, dc, i + 1, piece)
  ELSE IF ~is_same_color(piece, board[row + dr * i][col + dc * i])
  THEN {<<row + dr * i, col + dc * i>>}
  ELSE {}

RayMoves(board, row, col, directions) ==
  UNION {Ray(board, row, col, d[1], d[2], 1, board[row][col]) : d \in directions}

get_basic_king_moves(board, row, col) == StepMoves(board, row, col, KingDirections)

get_rook_moves(board, row, col) == RayMoves(board, row, col, RookDirections)

get_knight_moves(board, row, col) == StepMoves(board, row, col, KnightOffsets)

get_bishop_moves(board, row, col) == RayMoves(board, row, col, BishopDirections)

\* the diagonals are forgotten
get_queen_moves_RookOnly(board, row, col) == get_rook_moves(board, row, col)

get_queen_moves(board, row, col) ==
  get_rook_moves(board, row, col) \cup get_bishop_moves(board, row, col)

\* the advance of two ranks is forgotten
get_pawn_moves_SingleStep(ss, board, row, col) ==
  LET piece == board[row][col]
      new_row == row + (IF is_white_piece(piece) THEN -1 ELSE 1)
  IN (IF new_row \in Idx /\ board[new_row][col] = "" THEN {<<new_row, col>>} ELSE {})
       \cup {<<new_row, col + dc>> : dc \in
               {e \in {-1, 1} :
                  /\ OnBoard(new_row, col + e)
                  /\ board[new_row][col + e] # ""
                  /\ ~is_same_color(piece, board[new_row][col + e])}}

get_pawn_moves(ss, board, row, col) ==
  LET piece == board[row][col]
      is_white == is_white_piece(piece)
      direction == IF is_white THEN -1 ELSE 1
      start_row == IF is_white THEN 6 ELSE 1
      new_row == row + direction
      forward ==
        IF new_row \in Idx /\ board[new_row][col] = ""
        THEN {<<new_row, col>>} \cup
             (IF /\ row = start_row
                 /\ (new_row + direction) \in Idx
                 /\ board[new_row + direction][col] = ""
              THEN {<<new_row + direction, col>>} ELSE {})
        ELSE {}
      captures ==
        {<<new_row, col + dc>> : dc \in
           {e \in {-1, 1} :
              /\ OnBoard(new_row, col + e)
              /\ board[new_row][col + e] # ""
              /\ ~is_same_color(piece, board[new_row][col + e])}}
      lm == ss.last_move[1]
      en_passant_rank == IF is_white THEN 3 ELSE 4
      en_passant ==
        IF /\ ss.last_move # None
           /\ lower(lm.piece) = "p"
           /\ Abs(lm.to_row - lm.from_row) = 2
           /\ row = en_passant_rank
           /\ lm.to_row = row
           /\ Abs(lm.to_col - col) = 1
           /\ (lm.to_row + direction) \in Idx
        THEN {<<lm.to_row + direction, lm.to_col>>}
        ELSE {}
  IN forward \cup captures \cup en_passant

get_king_position(board, color) ==
  LET king_piece == IF color = "white" THEN "K" ELSE "k"
      found == {p \in Idx \X Idx : board[p[1]][p[2]] = king_piece}
  IN IF found = {} THEN None
     ELSE CHOOSE p \in found :
            \A q \in found : p[1] < q[1] \/ (p[1] = q[1] /\ p[2] <= q[2])

\* get_king_moves calls is_in_check and is_square_attacked, which call
\* get_possible_moves again
RECURSIVE get_possible_moves(_, _, _, _, _)

is_square_attacked(ss, board, row, col, by_color) ==
  \E r \in Idx, c \in Idx :
    /\ board[r][c] # ""
    /\ piece_color(board[r][c]) = by_color
    /\ <<row, col>> \in get_possible_moves(ss, board, r, c, FALSE)

is_in_check(ss, board, color) ==
  LET king_pos == get_king_position(board, color)
  IN IF king_pos = None THEN FALSE
     ELSE is_square_attacked(ss, board, king_pos[1], king_pos[2], opponent(color))

get_king_moves(ss, board, row, col) ==
  LET piece == board[row][col]
      is_white == is_white_piece(piece)
      color == IF is_white THEN "white" ELSE "black"
      enemy == IF is_white THEN "black" ELSE "white"
      starting_row == IF is_white THEN 7 ELSE 0
      gate ==
        /\ ~ss.king_moved[color]
        /\ row = starting_row /\ col = 4
        /\ ~is_in_check(ss, board, color)
      kingside ==
        IF /\ gate
           /\ ~ss.rook_moved[color]["kingside"]
           /\ lower(board[starting_row][7]) = "r"
           /\ is_same_color(piece, board[starting_row][7])
           /\ board[starting_row][5] = "" /\ board[starting_row][6] = ""
           /\ ~is_square_attacked(ss, board, starting_row, 5, enemy)
           /\ ~is_square_attacked(ss, board, starting_row, 6, enemy)
        THEN {<<starting_row, 6>>} ELSE {}
      queenside ==
        IF /\ gate
           /\ ~ss.rook_moved[color]["queenside"]
           /\ lower(board[starting_row][0]) = "r"
           /\ is_same_color(piece, board[starting_row][0])
           /\ board[starting_row][1] = ""
           /\ board[starting_row][2] = ""
           /\ board[starting_row][3] = ""
           /\ ~is_square_attacked(ss, board, starting_row, 2, enemy)
           /\ ~is_square_attacked(ss, board, starting_row, 3, enemy)
        THEN {<<starting_row, 2>>} ELSE {}
  IN StepMoves(board, row, col, KingDirections) \cup kingside \cup queenside

get_possible_moves(ss, board, row, col, include_castling) ==
  LET piece == lower(board[row][col])
  IN CASE piece = "p" -> get_pawn_moves(ss, board, row, col)
       [] piece = "r" -> get_rook_moves(board, row, col)
       [] piece = "n" -> get_knight_moves(board, row, col)
       [] piece = "b" -> get_bishop_moves(board, row, col)
       [] piece = "q" -> get_queen_moves(board, row, col)
       [] piece = "k" -> IF include_castling
                         THEN get_king_moves(ss, board, row, col)
                         ELSE get_basic_king_moves(board, row, col)
       [] OTHER -> {}

is_valid_move(ss, board, from_row, from_col, to_row, to_col) ==
  IF ~(OnBoard(from_row, from_col) /\ OnBoard(to_row, to_col)) THEN FALSE
  ELSE IF board[from_row][from_col] = "" THEN FALSE
  ELSE <<to_row, to_col>> \in get_possible_moves(ss, board, from_row, from_col, TRUE)

\* board[r][c] = v on a copy
SetSquare(board, r, c, v) == [board EXCEPT ![r][c] = v]

would_be_in_check(ss, board, from_row, from_col, to_row, to_col) ==
  LET moving_piece == board[from_row][from_col]
  IN IF moving_piece = "" THEN TRUE
     ELSE LET player_color == piece_color(moving_piece)
              temp_board ==
                SetSquare(SetSquare(board, to_row, to_col, moving_piece),
                          from_row, from_col, "")
          IN is_in_check(ss, temp_board, player_color)

get_legal_moves(ss, board, row, col) ==
  {m \in get_possible_moves(ss, board, row, col, TRUE) :
     ~would_be_in_check(ss, board, row, col, m[1], m[2])}

\* the pseudo-legal moves are counted
has_legal_moves_Pseudo(ss, board, color) ==
  \E row \in Idx, col \in Idx :
    /\ board[row][col] # ""
    /\ piece_color(board[row][col]) = color
    /\ get_possible_moves(ss, board, row, col, TRUE) # {}

has_legal_moves(ss, board, color) ==
  \E row \in Idx, col \in Idx :
    /\ board[row][col] # ""
    /\ piece_color(board[row][col]) = color
    /\ get_legal_moves(ss, board, row, col) # {}

is_checkmate(ss, board, color) ==
  is_in_check(ss, board, color) /\ ~has_legal_moves(ss, board, color)

\* a side that is not in check is stalemated, whatever it can play
is_stalemate_IgnoresMoves(ss, board, color) ==
  ~is_in_check(ss, board, color)

is_stalemate(ss, board, color) ==
  ~is_in_check(ss, board, color) /\ ~has_legal_moves(ss, board, color)

\* the check is tested before the checkmate
get_game_status_CheckFirst(ss, board, player) ==
  IF is_in_check(ss, board, player) THEN "check_" \o player
  ELSE IF is_checkmate(ss, board, player)
  THEN "checkmate_" \o opponent(player) \o "_wins"
  ELSE IF is_stalemate(ss, board, player) THEN "stalemate"
  ELSE "active"

get_game_status(ss, board, player) ==
  IF is_checkmate(ss, board, player)
  THEN "checkmate_" \o opponent(player) \o "_wins"
  ELSE IF is_stalemate(ss, board, player) THEN "stalemate"
  ELSE IF is_in_check(ss, board, player) THEN "check_" \o player
  ELSE "active"


\* the advanced pawn is looked for on the destination rank
en_passant_capture_DestinationRank(ss, board, from_row, from_col, to_row, to_col) ==
  /\ lower(board[from_row][from_col]) = "p"
  /\ Abs(to_col - from_col) = 1
  /\ board[to_row][to_col] = ""
  /\ ss.last_move # None
  /\ lower(ss.last_move[1].piece) = "p"
  /\ Abs(ss.last_move[1].to_row - ss.last_move[1].from_row) = 2
  /\ ss.last_move[1].to_col = to_col
  /\ ss.last_move[1].to_row = to_row

\* make_move, "Check for en passant before making the standard move"
en_passant_capture(ss, board, from_row, from_col, to_row, to_col) ==
  /\ lower(board[from_row][from_col]) = "p"
  /\ Abs(to_col - from_col) = 1
  /\ board[to_row][to_col] = ""
  /\ ss.last_move # None
  /\ lower(ss.last_move[1].piece) = "p"
  /\ Abs(ss.last_move[1].to_row - ss.last_move[1].from_row) = 2
  /\ ss.last_move[1].to_col = to_col
  /\ ss.last_move[1].to_row = from_row

\* a pawn that reaches the far rank becomes a queen
board_after_move_Promotes(ss, board, from_row, from_col, to_row, to_col) ==
  LET piece == board[from_row][from_col]
      placed == IF piece = "P" /\ to_row = 0 THEN "Q"
                ELSE IF piece = "p" /\ to_row = 7 THEN "q" ELSE piece
      moved == SetSquare(SetSquare(board, to_row, to_col, placed), from_row, from_col, "")
      after_ep ==
        IF en_passant_capture(ss, board, from_row, from_col, to_row, to_col)
        THEN SetSquare(moved, from_row, to_col, "") ELSE moved
      rook_from_col == IF to_col = 6 THEN 7 ELSE 0
      rook_to_col == IF to_col = 6 THEN 5 ELSE 3
  IN IF lower(piece) = "k" /\ Abs(to_col - from_col) = 2
     THEN SetSquare(SetSquare(after_ep, from_row, rook_to_col,
                              after_ep[from_row][rook_from_col]),
                    from_row, rook_from_col, "")
     ELSE after_ep

\* the king castles and the rook stays in its corner
board_after_move_NoRook(ss, board, from_row, from_col, to_row, to_col) ==
  LET piece == board[from_row][from_col]
      moved == SetSquare(SetSquare(board, to_row, to_col, piece), from_row, from_col, "")
  IN IF en_passant_capture(ss, board, from_row, from_col, to_row, to_col)
     THEN SetSquare(moved, from_row, to_col, "") ELSE moved

\* make_move, the board it returns: the standard move, the removal of the
\* pawn taken en passant, the rook of a castling
board_after_move(ss, board, from_row, from_col, to_row, to_col) ==
  LET piece == board[from_row][from_col]
      moved == SetSquare(SetSquare(board, to_row, to_col, piece), from_row, from_col, "")
      after_ep ==
        IF en_passant_capture(ss, board, from_row, from_col, to_row, to_col)
        THEN SetSquare(moved, from_row, to_col, "") ELSE moved
      rook_from_col == IF to_col = 6 THEN 7 ELSE 0
      rook_to_col == IF to_col = 6 THEN 5 ELSE 3
  IN IF lower(piece) = "k" /\ Abs(to_col - from_col) = 2
     THEN SetSquare(SetSquare(after_ep, from_row, rook_to_col,
                              after_ep[from_row][rook_from_col]),
                    from_row, rook_from_col, "")
     ELSE after_ep

\* only the piece on the destination is recorded
captured_after_move_DirectOnly(ss, board, from_row, from_col, to_row, to_col) ==
  LET color == piece_color(board[from_row][from_col])
      captured_piece == board[to_row][to_col]
  IN IF captured_piece # ""
     THEN [ss.captured_pieces EXCEPT ![color] = Append(@, captured_piece)]
     ELSE ss.captured_pieces

\* make_move, "Track captured pieces"
captured_after_move(ss, board, from_row, from_col, to_row, to_col) ==
  LET color == piece_color(board[from_row][from_col])
      captured_piece == board[to_row][to_col]
      en_passant_captured_piece == board[from_row][to_col]
  IN IF captured_piece # ""
     THEN [ss.captured_pieces EXCEPT ![color] = Append(@, captured_piece)]
     ELSE IF /\ en_passant_capture(ss, board, from_row, from_col, to_row, to_col)
             /\ en_passant_captured_piece # ""
     THEN [ss.captured_pieces EXCEPT ![color] = Append(@, en_passant_captured_piece)]
     ELSE ss.captured_pieces

\* the flag is flipped instead of set
king_moved_Toggled(ss, piece) ==
  IF lower(piece) = "k"
  THEN [ss.king_moved EXCEPT ![piece_color(piece)] = ~@]
  ELSE ss.king_moved

\* make_move, "Track king movement"
king_moved_after_move(ss, piece) ==
  IF lower(piece) = "k"
  THEN [ss.king_moved EXCEPT ![piece_color(piece)] = TRUE]
  ELSE ss.king_moved

\* make_move, "Track rook movement"
rook_moved_after_move(ss, piece, from_col) ==
  IF lower(piece) = "r" /\ from_col = 0
  THEN [ss.rook_moved EXCEPT ![piece_color(piece)]["queenside"] = TRUE]
  ELSE IF lower(piece) = "r" /\ from_col = 7
  THEN [ss.rook_moved EXCEPT ![piece_color(piece)]["kingside"] = TRUE]
  ELSE ss.rook_moved

\* only a pawn move is recorded
last_move_OnlyPawns(ss, piece, from_row, from_col, to_row, to_col) ==
  IF lower(piece) = "p"
  THEN <<[piece |-> piece, from_row |-> from_row, from_col |-> from_col,
          to_row |-> to_row, to_col |-> to_col]>>
  ELSE ss.last_move

\* make_move, "Store last move for en passant"
last_move_after_move(ss, piece, from_row, from_col, to_row, to_col) ==
  <<[piece |-> piece, from_row |-> from_row, from_col |-> from_col,
     to_row |-> to_row, to_col |-> to_col]>>

\* the board make_move returns and the session it leaves
make_move(ss, board, from_row, from_col, to_row, to_col) ==
  [board |-> board_after_move(ss, board, from_row, from_col, to_row, to_col),
   ss |-> [last_move |->
             last_move_after_move(ss, board[from_row][from_col],
                                  from_row, from_col, to_row, to_col),
           king_moved |-> king_moved_after_move(ss, board[from_row][from_col]),
           rook_moved |-> rook_moved_after_move(ss, board[from_row][from_col], from_col),
           captured_pieces |->
             captured_after_move(ss, board, from_row, from_col, to_row, to_col)]]

(***************************************************************************)
(* Coordinates                                                             *)
(***************************************************************************)
FileLetters == <<"a", "b", "c", "d", "e", "f", "g", "h">>

Letters == {"a", "b", "c", "d", "e", "f", "g", "h", "i", "x"}

Digits == {"0", "1", "2", "3", "4", "5", "6", "7", "8", "9"}

\* ord(ch) - ord("a") for the characters a player's input is drawn from
ord_minus_a(ch) ==
  CASE ch = "a" -> 0 [] ch = "b" -> 1 [] ch = "c" -> 2 [] ch = "d" -> 3
    [] ch = "e" -> 4 [] ch = "f" -> 5 [] ch = "g" -> 6 [] ch = "h" -> 7
    [] ch = "i" -> 8 [] ch = "x" -> 23
    [] ch = "0" -> -49 [] ch = "1" -> -48 [] ch = "2" -> -47 [] ch = "3" -> -46
    [] ch = "4" -> -45 [] ch = "5" -> -44 [] ch = "6" -> -43 [] ch = "7" -> -42
    [] ch = "8" -> -41 [] ch = "9" -> -40
    [] ch = "-" -> -52

\* int(ch) of a digit
int(ch) ==
  CASE ch = "0" -> 0 [] ch = "1" -> 1 [] ch = "2" -> 2 [] ch = "3" -> 3
    [] ch = "4" -> 4 [] ch = "5" -> 5 [] ch = "6" -> 6 [] ch = "7" -> 7
    [] ch = "8" -> 8 [] ch = "9" -> 9

\* ok = FALSE is the ValueError
coordinate_to_position(coordinate) ==
  IF Len(coordinate) # 2
  THEN [ok |-> FALSE, row |-> -1, col |-> -1,
        error |-> "Coordinate must be 2 characters (e.g., 'a1')"]
  ELSE IF coordinate[2] \notin Digits
  THEN [ok |-> FALSE, row |-> -1, col |-> -1,
        error |-> "invalid literal for int()"]
  ELSE LET col == ord_minus_a(coordinate[1])
           row == 8 - int(coordinate[2])
       IN IF ~(0 <= col /\ col < 8 /\ 0 <= row /\ row < 8)
          THEN [ok |-> FALSE, row |-> -1, col |-> -1, error |-> "Invalid coordinate"]
          ELSE [ok |-> TRUE, row |-> row, col |-> col, error |-> ""]

\* the rank is taken for the row
position_to_coordinate_RowAsRank(row, col) ==
  <<FileLetters[col + 1], <<"0", "1", "2", "3", "4", "5", "6", "7", "8">>[row + 1]>>

position_to_coordinate(row, col) ==
  <<FileLetters[col + 1], <<"0", "1", "2", "3", "4", "5", "6", "7", "8">>[8 - row + 1]>>

validate_coordinate(coordinate) ==
  IF coordinate = <<>> THEN [is_valid |-> TRUE, error |-> ""]
  ELSE IF Len(coordinate) # 2
  THEN [is_valid |-> FALSE, error |-> "Coordinate must be 2 characters (e.g., 'e2')"]
  ELSE IF coordinate[1] \notin Letters
  THEN [is_valid |-> FALSE, error |-> "First character must be a letter (a-h)"]
  ELSE IF coordinate[2] \notin Digits
  THEN [is_valid |-> FALSE, error |-> "Second character must be a number (1-8)"]
  ELSE LET pos == coordinate_to_position(coordinate)
       IN IF pos.ok THEN [is_valid |-> TRUE, error |-> ""]
          ELSE [is_valid |-> FALSE, error |-> pos.error]

\* the turn is not looked at
validate_coordinate_with_piece_AnyColour(coordinate) ==
  IF coordinate = <<>> THEN [is_valid |-> TRUE, error |-> ""]
  ELSE LET v == validate_coordinate(coordinate)
           pos == coordinate_to_position(coordinate)
           piece == chess_board[pos.row][pos.col]
       IN IF ~v.is_valid THEN v
          ELSE IF piece = "" THEN [is_valid |-> FALSE, error |-> "No piece"]
          ELSE [is_valid |-> TRUE, error |-> ""]

\* validate_coordinate_with_piece(coordinate, check_piece=True)
validate_coordinate_with_piece(coordinate) ==
  IF coordinate = <<>> THEN [is_valid |-> TRUE, error |-> ""]
  ELSE LET v == validate_coordinate(coordinate)
           pos == coordinate_to_position(coordinate)
           piece == chess_board[pos.row][pos.col]
       IN IF ~v.is_valid THEN v
          ELSE IF piece = "" THEN [is_valid |-> FALSE, error |-> "No piece"]
          ELSE IF current_player = "white" /\ ~is_white_piece(piece)
          THEN [is_valid |-> FALSE, error |-> "It's white's turn"]
          ELSE IF current_player = "black" /\ ~is_black_piece(piece)
          THEN [is_valid |-> FALSE, error |-> "It's black's turn"]
          ELSE [is_valid |-> TRUE, error |-> ""]

\* validate_move on the session's board; the message is kept by its kind
validate_move(ss, from_coord, to_coord) ==
  LET from_v == validate_coordinate_with_piece(from_coord)
      to_v == validate_coordinate(to_coord)
      from_pos == coordinate_to_position(from_coord)
      to_pos == coordinate_to_position(to_coord)
  IN IF ~from_v.is_valid THEN from_v
     ELSE IF ~to_v.is_valid THEN to_v
     ELSE IF ~from_pos.ok \/ ~to_pos.ok
     THEN [is_valid |-> FALSE, error |-> "Error validating move"]
     ELSE IF <<to_pos.row, to_pos.col>> \in
               get_legal_moves(ss, chess_board, from_pos.row, from_pos.col)
     THEN [is_valid |-> TRUE, error |-> ""]
     ELSE IF is_valid_move(ss, chess_board, from_pos.row, from_pos.col,
                           to_pos.row, to_pos.col)
     THEN [is_valid |-> FALSE, error |-> "would put your king in check"]
     ELSE [is_valid |-> FALSE, error |-> "cannot move"]

(***************************************************************************)
(* The session                                                             *)
(***************************************************************************)
\* the fields of st.session_state the engine functions read
Session ==
  [last_move |-> last_move, king_moved |-> king_moved,
   rook_moved |-> rook_moved, captured_pieces |-> captured_pieces]

NoFlags == [c \in {"white", "black"} |-> FALSE]

NoRookFlags ==
  [c \in {"white", "black"} |-> [w \in {"kingside", "queenside"} |-> FALSE]]

NoCaptures == [c \in {"white", "black"} |-> <<>>]

\* initialize_game_state on an empty session
Init ==
  /\ chess_board = DEFAULT_BOARD
  /\ current_player = "white"
  /\ selected_square = None
  /\ possible_moves = {}
  /\ move_history = <<>>
  /\ game_status = "active"
  /\ last_move = None
  /\ king_moved = NoFlags
  /\ rook_moved = NoRookFlags
  /\ captured_pieces = NoCaptures
  /\ outcome = "none"

Game == <<chess_board, current_player, move_history, game_status, last_move,
          king_moved, rook_moved, captured_pieces>>

\* the rejection forgets the last move
Reject_ClearsLastMove(kind) ==
  /\ outcome' = kind
  /\ last_move' = None
  /\ UNCHANGED <<chess_board, current_player, move_history, game_status,
                 king_moved, rook_moved, captured_pieces, selected_square,
                 possible_moves>>

\* a return after st.error, or the uncaught ValueError of an empty from_coord
Reject(kind) ==
  /\ outcome' = kind
  /\ UNCHANGED <<Game, selected_square, possible_moves>>

\* the branch "if not to_coord"
SelectPiece(from_row, from_col) ==
  /\ selected_square' = <<from_row, from_col>>
  /\ possible_moves' = get_legal_moves(Session, chess_board, from_row, from_col)
  /\ outcome' = "selected"
  /\ UNCHANGED Game

\* the turn does not pass to the other player
AcceptMove_KeepsTurn(from_coord, to_coord, from_row, from_col, to_row, to_col) ==
  LET mm == make_move(Session, chess_board, from_row, from_col, to_row, to_col)
  IN /\ chess_board' = mm.board
     /\ last_move' = mm.ss.last_move
     /\ king_moved' = mm.ss.king_moved
     /\ rook_moved' = mm.ss.rook_moved
     /\ captured_pieces' = mm.ss.captured_pieces
     /\ move_history' = Append(move_history, from_coord \o <<"-">> \o to_coord)
     /\ current_player' = current_player
     /\ game_status' = get_game_status(mm.ss, mm.board, current_player)
     /\ selected_square' = None
     /\ possible_moves' = {}
     /\ outcome' = "success"

\* the branch "if (to_row, to_col) in legal_moves"
AcceptMove(from_coord, to_coord, from_row, from_col, to_row, to_col) ==
  LET mm == make_move(Session, chess_board, from_row, from_col, to_row, to_col)
      next_player == IF current_player = "white" THEN "black" ELSE "white"
  IN /\ chess_board' = mm.board
     /\ last_move' = mm.ss.last_move
     /\ king_moved' = mm.ss.king_moved
     /\ rook_moved' = mm.ss.rook_moved
     /\ captured_pieces' = mm.ss.captured_pieces
     /\ move_history' = Append(move_history, from_coord \o <<"-">> \o to_coord)
     /\ current_player' = next_player
     /\ game_status' = get_game_status(mm.ss, mm.board, next_player)
     /\ selected_square' = None
     /\ possible_moves' = {}
     /\ outcome' = "success"

handle_piece_selection(from_coord, to_coord) ==
  LET from_v == validate_coordinate_with_piece(from_coord)
      from_pos == coordinate_to_position(from_coord)
      to_v == validate_coordinate(to_coord)
      to_pos == coordinate_to_position(to_coord)
      legal_moves == get_legal_moves(Session, chess_board, from_pos.row, from_pos.col)
  IN IF ~from_v.is_valid THEN Reject("error")
     ELSE IF ~from_pos.ok THEN Reject("exception")
     ELSE IF to_coord = <<>> THEN SelectPiece(from_pos.row, from_pos.col)
     ELSE IF ~to_v.is_valid THEN Reject("error")
     ELSE IF <<to_pos.row, to_pos.col>> \in legal_moves
     THEN AcceptMove(from_coord, to_coord, from_pos.row, from_pos.col,
                     to_pos.row, to_pos.col)
     ELSE Reject("error")

reset_game ==
  /\ chess_board' = DEFAULT_BOARD
  /\ current_player' = "white"
  /\ selected_square' = None
  /\ possible_moves' = {}
  /\ move_history' = <<>>
  /\ game_status' = get_game_status(Session, DEFAULT_BOARD, "white")
  /\ last_move' = None
  /\ king_moved' = NoFlags
  /\ rook_moved' = NoRookFlags
  /\ captured_pieces' = NoCaptures
  /\ outcome' = "reset"

(***************************************************************************)
(* The player.  Every state is reached from the start position through     *)
(* handle_piece_selection.  The accepted moves follow one of the games     *)
(* below, and a finished game (or the empty one) is continued by at most   *)
(* MaxFree moves chosen freely among all squares; at any time the player   *)
(* may also type one of the Probes, which cover the rejections and the     *)
(* selection of a piece.                                                   *)
(***************************************************************************)
MaxFree == 1

M(a, b, c, d) == <<a, b, "-", c, d>>

FoolsMate ==
  <<M("f","2","f","3"), M("e","7","e","5"), M("g","2","g","4"), M("d","8","h","4")>>

\* the ten-move stalemate game
Stalemate ==
  <<M("e","2","e","3"), M("a","7","a","5"), M("d","1","h","5"), M("a","8","a","6"),
    M("h","5","a","5"), M("h","7","h","5"), M("h","2","h","4"), M("a","6","h","6"),
    M("a","5","c","7"), M("f","7","f","6"), M("c","7","d","7"), M("e","8","f","7"),
    M("d","7","b","7"), M("d","8","d","3"), M("b","7","b","8"), M("d","3","h","7"),
    M("b","8","c","8"), M("f","7","g","6"), M("c","8","e","6")>>

\* black king g4, black pawn e4, white queen a4, then d2-d4
EpPin ==
  <<M("c","2","c","3"), M("e","7","e","5"), M("d","1","a","4"), M("e","5","e","4"),
    M("a","2","a","3"), M("e","8","e","7"), M("b","2","b","3"), M("e","7","f","6"),
    M("a","1","a","2"), M("f","6","g","5"), M("a","2","a","1"), M("g","5","g","4"),
    M("d","2","d","4")>>

\* white king e4, white pawn e5, then d7-d5 with check
EpCheck ==
  <<M("e","2","e","4"), M("a","7","a","6"), M("e","4","e","5"), M("a","6","a","5"),
    M("e","1","e","2"), M("h","7","h","6"), M("e","2","e","3"), M("h","6","h","5"),
    M("e","3","e","4"), M("d","7","d","5")>>

\* a black pawn reaches e2 while f1 and g1 are empty
PawnCastle ==
  <<M("g","1","h","3"), M("d","7","d","5"), M("g","2","g","3"), M("d","5","d","4"),
    M("f","1","g","2"), M("d","4","d","3"), M("a","2","a","3"), M("d","3","e","2")>>

\* the rook of h1 is taken at home and the rook of a1 goes to h1 over g1
RookSwap ==
  <<M("a","2","a","4"), M("b","7","b","6"), M("a","1","a","3"), M("c","8","b","7"),
    M("g","2","g","4"), M("b","7","h","1"), M("g","1","h","3"), M("a","7","a","6"),
    M("a","3","g","3"), M("a","6","a","5"), M("g","3","g","1"), M("h","7","h","6"),
    M("g","1","h","1"), M("h","6","h","5"), M("f","1","g","2"), M("b","8","c","6")>>

\* the rook of h1 moves along the a-file; the rook of a1 stays at home
WrongWing ==
  <<M("h","2","h","4"), M("a","7","a","6"), M("h","1","h","3"), M("a","6","a","5"),
    M("h","3","a","3"), M("b","7","b","6"), M("a","3","b","3"), M("b","6","b","5"),
    M("b","1","c","3"), M("h","7","h","6"), M("d","2","d","3"), M("h","6","h","5"),
    M("c","1","e","3"), M("g","7","g","6"), M("d","1","d","2"), M("g","6","g","5")>>

KingBack ==
  <<M("g","1","h","3"), M("a","7","a","6"), M("g","2","g","3"), M("a","6","a","5"),
    M("f","1","g","2"), M("h","7","h","6"), M("e","1","f","1"), M("h","6","h","5"),
    M("f","1","e","1"), M("b","7","b","6")>>

RookBack ==
  <<M("g","1","h","3"), M("a","7","a","6"), M("g","2","g","3"), M("a","6","a","5"),
    M("f","1","g","2"), M("h","7","h","6"), M("h","1","g","1"), M("h","6","h","5"),
    M("g","1","h","1"), M("b","7","b","6")>>

Castle ==
  <<M("g","1","h","3"), M("a","7","a","6"), M("g","2","g","3"), M("a","6","a","5"),
    M("f","1","g","2"), M("h","7","h","6"), M("e","1","g","1"), M("h","6","h","5")>>

EnPassant ==
  <<M("e","2","e","4"), M("a","7","a","6"), M("e","4","e","5"), M("d","7","d","5"),
    M("e","5","d","6")>>

\* the capture en passant is offered and white plays something else
EpMissed ==
  <<M("e","2","e","4"), M("a","7","a","6"), M("e","4","e","5"), M("d","7","d","5"),
    M("g","1","f","3")>>

\* EpPin, then the pawn takes en passant and the queen takes the king
KingTaken == EpPin \o <<M("e","4","d","3"), M("a","4","g","4")>>

\* white castles on the queenside
QueensideCastle ==
  <<M("d","2","d","4"), M("a","7","a","6"), M("c","1","f","4"), M("a","6","a","5"),
    M("b","1","c","3"), M("h","7","h","6"), M("d","1","d","2"), M("h","6","h","5"),
    M("e","1","c","1"), M("b","7","b","6")>>

\* black castles on the kingside
BlackCastle ==
  <<M("a","2","a","3"), M("g","7","g","6"), M("a","3","a","4"), M("f","8","g","7"),
    M("a","4","a","5"), M("g","8","f","6"), M("a","5","a","6"), M("e","8","g","8")>>

\* a white pawn reaches g8 and a black pawn a1
FarRank ==
  <<M("h","2","h","4"), M("g","7","g","5"), M("h","4","g","5"), M("a","7","a","5"),
    M("g","5","g","6"), M("a","5","a","4"), M("g","6","h","7"), M("a","4","a","3"),
    M("h","7","g","8"), M("a","3","b","2"), M("b","1","c","3"), M("b","2","a","1")>>

Games == {<<>>, BlackCastle, FarRank, FoolsMate, Stalemate, EpPin, EpCheck, PawnCastle, RookSwap,
          WrongWing, KingBack, RookBack, Castle, EnPassant, EpMissed,
          KingTaken, QueensideCastle}

IsPrefix(s, t) == Len(s) <= Len(t) /\ SubSeq(t, 1, Len(s)) = s

Squares == {<<FileLetters[f], r>> : f \in 1..8, r \in {"1", "2", "3", "4", "5", "6", "7", "8"}}

From(entry) == SubSeq(entry, 1, 2)

To(entry) == SubSeq(entry, 4, 5)

\* the player follows a game
ScriptedMove ==
  \E g \in Games :
    /\ Len(move_history) < Len(g)
    /\ IsPrefix(move_history, g)
    /\ handle_piece_selection(From(g[Len(move_history) + 1]), To(g[Len(move_history) + 1]))

\* the player continues a finished game with any move the engine accepts
FreeMove ==
  /\ \E g \in Games : IsPrefix(g, move_history) /\ Len(move_history) - Len(g) < MaxFree
  /\ \E from_coord \in Squares :
       LET pos == coordinate_to_position(from_coord)
       IN /\ validate_coordinate_with_piece(from_coord).is_valid
          /\ \E m \in get_legal_moves(Session, chess_board, pos.row, pos.col) :
               handle_piece_selection(from_coord, position_to_coordinate(m[1], m[2]))

\* pairs of inputs no position accepts, or that select a piece: an empty
\* and a malformed coordinate, an empty square, a piece of either colour
\* with a destination it cannot reach, a piece without destination
Probes ==
  {<< <<>>, <<"e", "4">> >>, << <<"e">>, <<"e", "4">> >>,
   << <<"i", "1">>, <<"e", "4">> >>, << <<"1", "a">>, <<"e", "4">> >>,
   << <<"f", "2">>, <<"e", "x">> >>, << <<"f", "7">>, <<"a", "9">> >>,
   << <<"d", "5">>, <<"d", "6">> >>,
   << <<"f", "2">>, <<"f", "5">> >>, << <<"f", "7">>, <<"f", "4">> >>,
   << <<"f", "2">>, <<>> >>, << <<"f", "7">>, <<>> >>}

\* the player types something else
Probe ==
  \E p \in Probes :
    /\ handle_piece_selection(p[1], p[2])
    /\ move_history' = move_history

\* the "Reset Game" button of main
ResetGame == reset_game

Next == ScriptedMove \/ FreeMove \/ Probe \/ ResetGame

Spec == Init /\ [][Next]_vars

(***************************************************************************)
(* The queries.  The engine's read-only functions are applied to a         *)
(* position; outcome records the call and what it returned, chess_board    *)
(* becomes the caller's board as the call leaves it.                       *)
(***************************************************************************)
\* the scratch board shares the caller's list: the two assignments reach it
would_be_in_check_objects_Aliased(board, from_row, from_col, to_row, to_col) ==
  IF board[from_row][from_col] = "" THEN [board |-> board, temp_board |-> board]
  ELSE LET written == SetSquare(SetSquare(board, to_row, to_col, board[from_row][from_col]),
                                from_row, from_col, "")
       IN [board |-> written, temp_board |-> written]

\* would_be_in_check, the two lists when it returns: board is the caller's,
\* temp_board the deep copy the two assignments go to
would_be_in_check_objects(board, from_row, from_col, to_row, to_col) ==
  IF board[from_row][from_col] = "" THEN [board |-> board, temp_board |-> board]
  ELSE [board |-> board,
        temp_board |-> SetSquare(SetSquare(board, to_row, to_col, board[from_row][from_col]),
                                 from_row, from_col, "")]

RECURSIVE board_after_filter(_, _, _, _)

\* get_legal_moves, the caller's board after the loop over possible_moves
\* (each board is bound through a one-element set, so that it is evaluated
\* before the next iteration)
board_after_filter(board, row, col, moves) ==
  IF moves = {} THEN board
  ELSE LET m == CHOOSE n \in moves : TRUE
       IN CHOOSE final \in
            {board_after_filter(after, row, col, moves \ {m}) :
               after \in {would_be_in_check_objects(board, row, col, m[1], m[2]).board}} :
            TRUE

board_after_get_legal_moves(ss, board, row, col) ==
  board_after_filter(board, row, col, get_possible_moves(ss, board, row, col, TRUE))

RECURSIVE board_after_has_legal_moves(_, _, _, _)

\* has_legal_moves, the caller's board when it returns: the squares are
\* scanned row by row from square k on, the squares that are empty or hold a
\* piece of the other colour are passed over, and the scan ends at the first
\* piece with a legal move
board_after_has_legal_moves(ss, board, color, k) ==
  LET rest == {n \in k..63 :
                 /\ board[n \div 8][n % 8] # ""
                 /\ piece_color(board[n \div 8][n % 8]) = color}
  IN IF rest = {} THEN board
     ELSE LET n == CHOOSE x \in rest : \A y \in rest : x <= y
              row == n \div 8
              col == n % 8
          IN IF get_legal_moves(ss, board, row, col) # {}
             THEN board_after_get_legal_moves(ss, board, row, col)
             ELSE CHOOSE final \in
                    {board_after_has_legal_moves(ss, after, color, n + 1) :
                       after \in {board_after_get_legal_moves(ss, board, row, col)}} :
                    TRUE

\* the position after the first k plies of a game
RECURSIVE Replay(_, _)

Replay(g, k) ==
  IF k = 0
  THEN [board |-> DEFAULT_BOARD,
        ss |-> [last_move |-> None, king_moved |-> NoFlags,
                rook_moved |-> NoRookFlags, captured_pieces |-> NoCaptures]]
  ELSE LET from_pos == coordinate_to_position(From(g[k]))
           to_pos == coordinate_to_position(To(g[k]))
       IN CHOOSE after \in
            {make_move(before.ss, before.board, from_pos.row, from_pos.col,
                       to_pos.row, to_pos.col) : before \in {Replay(g, k - 1)}} :
            TRUE

\* the positions the queries are applied to: the start, a check, a
\* stalemate, castling and en passant on offer, a board without black king
QueryGames == {<<>>, EpCheck, Stalemate, SubSeq(Castle, 1, 6), EpPin, KingTaken}

NoCall == [query |-> "none", input |-> <<>>, result |-> <<>>]

QueryInit ==
  \E g \in QueryGames :
    LET at == Replay(g, Len(g))
    IN /\ chess_board = at.board
       /\ current_player = IF Len(g) % 2 = 0 THEN "white" ELSE "black"
       /\ selected_square = None
       /\ possible_moves = {}
       /\ move_history = g
       /\ game_status = get_game_status(at.ss, at.board, current_player)
       /\ last_move = at.ss.last_move
       /\ king_moved = at.ss.king_moved
       /\ rook_moved = at.ss.rook_moved
       /\ captured_pieces = at.ss.captured_pieces
       /\ outcome = NoCall

\* a call that returns result and leaves the caller's board as board_after
Call(query, input, result, board_after) ==
  /\ outcome' = [query |-> query, input |-> input, result |-> result]
  /\ chess_board' = board_after
  /\ UNCHANGED <<current_player, selected_square, possible_moves, move_history,
                 game_status, last_move, king_moved, rook_moved, captured_pieces>>

QueryLegalMoves ==
  \E p \in {q \in Idx \X Idx : chess_board[q[1]][q[2]] # ""} :
    Call("get_legal_moves", p,
         get_legal_moves(Session, chess_board, p[1], p[2]),
         board_after_get_legal_moves(Session, chess_board, p[1], p[2]))

QueryPossibleMoves ==
  \E p \in {q \in Idx \X Idx : chess_board[q[1]][q[2]] # ""} :
    Call("get_possible_moves", p,
         get_possible_moves(Session, chess_board, p[1], p[2], TRUE), chess_board)

\* is_valid_move for a king's, a pawn's and an empty square's moves
QueryValidMove ==
  \E m \in {<<7, 4, 7, 6>>, <<7, 4, 6, 4>>, <<6, 4, 4, 4>>, <<3, 4, 2, 3>>, <<4, 0, 3, 0>>} :
    Call("is_valid_move", m,
         is_valid_move(Session, chess_board, m[1], m[2], m[3], m[4]), chess_board)

QueryInCheck ==
  \E color \in {"white", "black"} :
    Call("is_in_check", color, is_in_check(Session, chess_board, color), chess_board)

QueryGameStatus ==
  \E player \in {"white", "black"} :
    Call("get_game_status", player,
         get_game_status(Session, chess_board, player),
         board_after_has_legal_moves(Session, chess_board, player, 0))

\* the characters a coordinate is typed from
CoordinateChars == {"a", "h", "i", "-", "0", "1", "8", "9"}

MaxCoordinateLen == 2

CoordinateInputs ==
  UNION {[1..n -> CoordinateChars] : n \in 0..MaxCoordinateLen}

ValidateCoordinate ==
  \E coordinate \in CoordinateInputs :
    Call("validate_coordinate", coordinate,
         [valid |-> validate_coordinate(coordinate),
          position |-> coordinate_to_position(coordinate)],
         chess_board)

QueryNext ==
  \/ QueryLegalMoves
  \/ QueryPossibleMoves
  \/ QueryValidMove
  \/ QueryInCheck
  \/ QueryGameStatus
  \/ ValidateCoordinate

QuerySpec == QueryInit /\ [][QueryNext]_vars

(***************************************************************************)
(* The calls the engine functions make                                     *)
(***************************************************************************)
\* a call in progress: pc counts the calls it has made so far
Frame(fn, board, args) == [fn |-> fn, board |-> board, args |-> args, pc |-> 0]

\* the squares of a set of square numbers (8 * row + col), in scan order
InOrder(S) ==
  [i \in 1..Cardinality(S) |-> CHOOSE n \in S : Cardinality({m \in S : m < n}) = i - 1]

\* the squares that hold a piece of a colour, by number
PieceNumbers(board, color) ==
  {n \in 0..63 :
     /\ board[n \div 8][n % 8] # ""
     /\ piece_color(board[n \div 8][n % 8]) = color}

\* the squares a scan "for row, for col" visits up to its first hit
ScannedUpTo(pieces, hits) ==
  IF hits = {} THEN pieces
  ELSE {n \in pieces : \A h \in hits : n <= h}

\* the probe asks for castling moves too
AttackProbe_WithCastling(board, r, c) == Frame("get_possible_moves", board, <<r, c, TRUE>>)

\* is_square_attacked: get_possible_moves(board, r, c, include_castling=False)
AttackProbe(board, r, c) == Frame("get_possible_moves", board, <<r, c, FALSE>>)

\* get_possible_moves calls get_king_moves for a king when include_castling
\* is set; the other generators call nothing
Calls_get_possible_moves(ss, board, row, col, include_castling) ==
  IF lower(board[row][col]) = "k" /\ include_castling
  THEN <<Frame("get_king_moves", board, <<row, col>>)>>
  ELSE <<>>

\* get_king_moves, "Castling logic": is_in_check, then is_square_attacked for
\* the squares of each wing, as far as the conditions before them let through
Calls_get_king_moves(ss, board, row, col) ==
  LET piece == board[row][col]
      color == piece_color(piece)
      starting_row == IF is_white_piece(piece) THEN 7 ELSE 0
      by_color == opponent(color)
      probe(c) == Frame("is_square_attacked", board, <<starting_row, c, by_color>>)
      wing(name, rook_col, empty_cols, first, second) ==
        IF /\ ~ss.rook_moved[color][name]
           /\ lower(board[starting_row][rook_col]) = "r"
           /\ is_same_color(piece, board[starting_row][rook_col])
           /\ \A c \in empty_cols : board[starting_row][c] = ""
        THEN <<probe(first)>> \o
             (IF is_square_attacked(ss, board, starting_row, first, by_color)
              THEN <<>> ELSE <<probe(second)>>)
        ELSE <<>>
  IN IF ss.king_moved[color] \/ row # starting_row \/ col # 4 THEN <<>>
     ELSE <<Frame("is_in_check", board, <<color>>)>> \o
          (IF is_in_check(ss, board, color) THEN <<>>
           ELSE wing("kingside", 7, {5, 6}, 5, 6) \o wing("queenside", 0, {1, 2, 3}, 2, 3))

Calls_is_in_check(ss, board, color) ==
  LET king_pos == get_king_position(board, color)
  IN IF king_pos = None THEN <<>>
     ELSE <<Frame("is_square_attacked", board, <<king_pos[1], king_pos[2], opponent(color)>>)>>

\* is_square_attacked: one probe for each piece of by_color, row by row, up
\* to the first whose moves hold the square
Calls_is_square_attacked(ss, board, row, col, by_color) ==
  LET pieces == PieceNumbers(board, by_color)
      hits == {n \in pieces :
                 <<row, col>> \in get_possible_moves(ss, board, n \div 8, n % 8, FALSE)}
      scanned == InOrder(ScannedUpTo(pieces, hits))
  IN [i \in 1..Len(scanned) |-> AttackProbe(board, scanned[i] \div 8, scanned[i] % 8)]

Calls_would_be_in_check(ss, board, from_row, from_col, to_row, to_col) ==
  IF board[from_row][from_col] = "" THEN <<>>
  ELSE <<Frame("is_in_check",
               would_be_in_check_objects(board, from_row, from_col, to_row, to_col).temp_board,
               <<piece_color(board[from_row][from_col])>>)>>

\* get_legal_moves: get_possible_moves, then would_be_in_check for each move
\* (taken here in the order of the squares)
Calls_get_legal_moves(ss, board, row, col) ==
  LET moves == InOrder({8 * m[1] + m[2] : m \in get_possible_moves(ss, board, row, col, TRUE)})
  IN <<Frame("get_possible_moves", board, <<row, col, TRUE>>)>> \o
     [i \in 1..Len(moves) |->
        Frame("would_be_in_check", board, <<row, col, moves[i] \div 8, moves[i] % 8>>)]

\* has_legal_moves: get_legal_moves for each piece of the colour, row by row,
\* up to the first that has a legal move
Calls_has_legal_moves(ss, board, color) ==
  LET pieces == PieceNumbers(board, color)
      hits == {n \in pieces : get_legal_moves(ss, board, n \div 8, n % 8) # {}}
      scanned == InOrder(ScannedUpTo(pieces, hits))
  IN [i \in 1..Len(scanned) |->
        Frame("get_legal_moves", board, <<scanned[i] \div 8, scanned[i] % 8>>)]

\* is_in_check(...) and not has_legal_moves(...)
Calls_is_checkmate(ss, board, color) ==
  <<Frame("is_in_check", board, <<color>>)>> \o
  (IF is_in_check(ss, board, color)
   THEN <<Frame("has_legal_moves", board, <<color>>)>> ELSE <<>>)

\* not is_in_check(...) and not has_legal_moves(...)
Calls_is_stalemate(ss, board, color) ==
  <<Frame("is_in_check", board, <<color>>)>> \o
  (IF ~is_in_check(ss, board, color)
   THEN <<Frame("has_legal_moves", board, <<color>>)>> ELSE <<>>)

\* get_game_status: the if / elif chain
Calls_get_game_status(ss, board, player) ==
  <<Frame("is_checkmate", board, <<player>>)>> \o
  (IF is_checkmate(ss, board, player) THEN <<>>
   ELSE <<Frame("is_stalemate", board, <<player>>)>> \o
        (IF is_stalemate(ss, board, player) THEN <<>>
         ELSE <<Frame("is_in_check", board, <<player>>)>>))

\* the calls a frame makes from start to return, in order
Calls(ss, f) ==
  CASE f.fn = "get_possible_moves" ->
         Calls_get_possible_moves(ss, f.board, f.args[1], f.args[2], f.args[3])
    [] f.fn = "get_king_moves" -> Calls_get_king_moves(ss, f.board, f.args[1], f.args[2])
    [] f.fn = "is_in_check" -> Calls_is_in_check(ss, f.board, f.args[1])
    [] f.fn = "is_square_attacked" ->
         Calls_is_square_attacked(ss, f.board, f.args[1], f.args[2], f.args[3])
    [] f.fn = "would_be_in_check" ->
         Calls_would_be_in_check(ss, f.board, f.args[1], f.args[2], f.args[3], f.args[4])
    [] f.fn = "get_legal_moves" -> Calls_get_legal_moves(ss, f.board, f.args[1], f.args[2])
    [] f.fn = "has_legal_moves" -> Calls_has_legal_moves(ss, f.board, f.args[1])
    [] f.fn = "is_checkmate" -> Calls_is_checkmate(ss, f.board, f.args[1])
    [] f.fn = "is_stalemate" -> Calls_is_stalemate(ss, f.board, f.args[1])
    [] f.fn = "get_game_status" -> Calls_get_game_status(ss, f.board, f.args[1])

\* the deepest call stack the model follows
MaxStack == 12

\* the positions the calls are followed on: the start, white about to
\* castle, a check with en passant on offer, a stalemate
CallGames == {<<>>, SubSeq(Castle, 1, 6), EpCheck, Stalemate}

\* get_legal_moves of a piece, or get_game_status of a side, is called
RootCalls(board) ==
  {Frame("get_game_status", board, <<player>>) : player \in {"white", "black"}}
  \cup {Frame("get_legal_moves", board, <<n \div 8, n % 8>>) :
          n \in PieceNumbers(board, "white") \cup PieceNumbers(board, "black")}

\* outcome holds the call that was made and the stack of the calls in progress
CallInit ==
  \E g \in CallGames :
    LET at == Replay(g, Len(g))
    IN /\ chess_board = at.board
       /\ current_player = IF Len(g) % 2 = 0 THEN "white" ELSE "black"
       /\ selected_square = None
       /\ possible_moves = {}
       /\ move_history = g
       /\ game_status = get_game_status(at.ss, at.board, current_player)
       /\ last_move = at.ss.last_move
       /\ king_moved = at.ss.king_moved
       /\ rook_moved = at.ss.rook_moved
       /\ captured_pieces = at.ss.captured_pieces
       /\ \E root \in RootCalls(at.board) :
            outcome = [query |-> "call", input |-> root, result |-> <<root>>]

CallStack == outcome.result

\* the innermost call makes its next call
EnterCall ==
  /\ CallStack # <<>>
  /\ Len(CallStack) < MaxStack
  /\ LET top == CallStack[Len(CallStack)]
         calls == Calls(Session, top)
     IN /\ top.pc < Len(calls)
        /\ outcome' =
             [outcome EXCEPT !.result =
                Append([CallStack EXCEPT ![Len(CallStack)].pc = top.pc + 1],
                       calls[top.pc + 1])]
  /\ UNCHANGED <<Game, selected_square, possible_moves>>

\* the innermost call has made all its calls and returns
ReturnFromCall ==
  /\ CallStack # <<>>
  /\ LET top == CallStack[Len(CallStack)]
     IN top.pc >= Len(Calls(Session, top))
  /\ outcome' = [outcome EXCEPT !.result = SubSeq(CallStack, 1, Len(CallStack) - 1)]
  /\ UNCHANGED <<Game, selected_square, possible_moves>>

CallNext == EnterCall \/ ReturnFromCall

CallSpec == CallInit /\ [][CallNext]_vars

(***************************************************************************)
(* What the claims speak of                                                *)
(***************************************************************************)
Colors == {"white", "black"}

Wings == {"kingside", "queenside"}

Occupied == {p \in Idx \X Idx : chess_board[p[1]][p[2]] # ""}

PiecesOf(color) == {p \in Occupied : piece_color(chess_board[p[1]][p[2]]) = color}

HomeRow(color) == IF color = "white" THEN 7 ELSE 0

KingOf(color) == IF color = "white" THEN "K" ELSE "k"

RookOf(color) == IF color = "white" THEN "R" ELSE "r"

CornerCol(wing) == IF wing = "kingside" THEN 7 ELSE 0

CrossedCol(wing) == IF wing = "kingside" THEN 5 ELSE 3

CastlingCol(wing) == IF wing = "kingside" THEN 6 ELSE 2

BetweenCols(wing) == IF wing = "kingside" THEN {5, 6} ELSE {1, 2, 3}

Plies == 1..Len(move_history)

\* the king of a colour has moved: the first piece to leave e1 (e8) is the king
KingHasMoved(color) ==
  \E i \in Plies : From(move_history[i]) = position_to_coordinate(HomeRow(color), 4)

\* the rook that started on the corner has moved: a piece left the corner
\* before any piece arrived there
CornerRookHasMoved(color, wing) ==
  LET corner == position_to_coordinate(HomeRow(color), CornerCol(wing))
  IN \E i \in Plies :
       /\ From(move_history[i]) = corner
       /\ \A j \in 1..(i - 1) : To(move_history[j]) # corner

\* the rook that started on the corner has never moved and stands there
CornerRookAtHome(color, wing) ==
  LET corner == position_to_coordinate(HomeRow(color), CornerCol(wing))
  IN /\ chess_board[HomeRow(color)][CornerCol(wing)] = RookOf(color)
     /\ \A i \in Plies : From(move_history[i]) # corner /\ To(move_history[i]) # corner

\* get_possible_moves offers the king of a colour, on its home row, the
\* destination two files away on a wing
CastlingOffered(color, wing) ==
  \E p \in PiecesOf(color) :
    /\ chess_board[p[1]][p[2]] = KingOf(color)
    /\ p[1] = HomeRow(color)
    /\ Abs(CastlingCol(wing) - p[2]) = 2
    /\ <<HomeRow(color), CastlingCol(wing)>> \in
         get_possible_moves(Session, chess_board, p[1], p[2], TRUE)

\* the rule of chess: a pawn attacks the two squares diagonally ahead of it,
\* occupied or not, and not the square straight ahead; any other piece
\* attacks the squares it could move to
ChessAttacks(board, row, col, by_color) ==
  \E r \in Idx, c \in Idx :
    /\ board[r][c] # ""
    /\ piece_color(board[r][c]) = by_color
    /\ IF lower(board[r][c]) = "p"
       THEN row = r + (IF by_color = "white" THEN -1 ELSE 1) /\ Abs(col - c) = 1
       ELSE <<row, col>> \in get_possible_moves(Session, board, r, c, FALSE)

\* the king of a colour is attacked once make_move has applied the move
KingAttackedAfter(from_row, from_col, to_row, to_col) ==
  LET mm == make_move(Session, chess_board, from_row, from_col, to_row, to_col)
  IN is_in_check(mm.ss, mm.board, piece_color(chess_board[from_row][from_col]))

\* the last accepted ply, decoded from move_history
LastFrom == coordinate_to_position(From(move_history[Len(move_history)]))

LastTo == coordinate_to_position(To(move_history[Len(move_history)]))

\* the last accepted ply was a two-rank pawn advance
PawnJustAdvancedTwo ==
  /\ move_history # <<>>
  /\ lower(chess_board[LastTo.row][LastTo.col]) = "p"
  /\ LastFrom.col = LastTo.col
  /\ Abs(LastTo.row - LastFrom.row) = 2

SkippedSquare == <<(LastFrom.row + LastTo.row) \div 2, LastTo.col>>

\* C1: no destination of get_legal_moves leaves, once make_move has applied
\* it, the king of the moving piece attacked
C1_LegalMovesKeepKingSafe ==
  \A p \in Occupied :
    \A m \in get_legal_moves(Session, chess_board, p[1], p[2]) :
      ~KingAttackedAfter(p[1], p[2], m[1], m[2])

\* the inputs of the claim C2: a coordinate that is no square, or a
\* destination that get_legal_moves of the from-square does not hold
NotALegalMove(from_coord, to_coord) ==
  \/ ~coordinate_to_position(from_coord).ok
  \/ ~coordinate_to_position(to_coord).ok
  \/ <<coordinate_to_position(to_coord).row, coordinate_to_position(to_coord).col>> \notin
       get_legal_moves(Session, chess_board, coordinate_to_position(from_coord).row,
                       coordinate_to_position(from_coord).col)

\* C2: a call of handle_piece_selection whose coordinates are invalid or
\* whose destination is not a legal move of the from-square leaves
\* chess_board, current_player, move_history, last_move, king_moved,
\* rook_moved, captured_pieces and game_status as they were
C2_RejectedMoveChangesNothing ==
  [][\A p \in Probes :
       (NotALegalMove(p[1], p[2]) /\ handle_piece_selection(p[1], p[2]))
         => UNCHANGED Game]_vars

\* a rejection in the middle of a game
C2_Witness == outcome = "error" /\ Len(move_history) >= 2

\* C3: get_game_status follows the decision table over "side is in check"
\* and "some piece of side has a legal move", for either side
C3_StatusDecisionTable ==
  \A side \in Colors :
    LET status == get_game_status(Session, chess_board, side)
        in_check == is_in_check(Session, chess_board, side)
        can_move ==
          \E p \in PiecesOf(side) :
            get_legal_moves(Session, chess_board, p[1], p[2]) # {}
    IN /\ status \in {"check_" \o side, "checkmate_" \o opponent(side) \o "_wins",
                      "active", "stalemate"}
       /\ (status = "check_" \o side) <=> (in_check /\ can_move)
       /\ (status = "checkmate_" \o opponent(side) \o "_wins") <=> (in_check /\ ~can_move)
       /\ (status = "active") <=> (~in_check /\ can_move)
       /\ (status = "stalemate") <=> (~in_check /\ ~can_move)

\* a side in check without a legal move
C3_Witness ==
  /\ is_in_check(Session, chess_board, current_player)
  /\ \A p \in PiecesOf(current_player) :
       get_legal_moves(Session, chess_board, p[1], p[2]) = {}
  /\ game_status = "checkmate_" \o opponent(current_player) \o "_wins"

\* C4 (state part): a king that has moved is offered no castling, and no
\* castling is offered on the wing of a corner rook that has moved
C4_NoCastlingAfterMoving ==
  \A color \in Colors, wing \in Wings :
    (KingHasMoved(color) \/ CornerRookHasMoved(color, wing))
      => ~CastlingOffered(color, wing)

\* C4: until reset_game no flag of king_moved or rook_moved goes from true
\* to false, and a king or corner rook that has moved, even when it stands
\* on its home square again, is offered no castling
C4_CastlingRightsMonotonic ==
  /\ []C4_NoCastlingAfterMoving
  /\ [][outcome' # "reset" =>
          \A color \in Colors :
            /\ king_moved[color] => king_moved'[color]
            /\ \A wing \in Wings : rook_moved[color][wing] => rook_moved'[color][wing]]_vars

\* the white king went to f1 and came back: king, rook and empty squares
\* stand as at the start of the game
C4_Witness ==
  /\ KingHasMoved("white")
  /\ king_moved["white"]
  /\ chess_board[7][4] = "K" /\ chess_board[7][7] = "R"
  /\ chess_board[7][5] = "" /\ chess_board[7][6] = ""
  /\ current_player = "white"

\* C5: a king that never moved, with the rook of a wing that never moved on
\* its corner, empty squares between them and no attack on the king's
\* square, the square it crosses and its destination, is offered the
\* castling of that wing
C5_CastlingOfferedPerWing ==
  \A color \in Colors, wing \in Wings :
    ( /\ ~KingHasMoved(color)
      /\ chess_board[HomeRow(color)][4] = KingOf(color)
      /\ CornerRookAtHome(color, wing)
      /\ \A c \in BetweenCols(wing) : chess_board[HomeRow(color)][c] = ""
      /\ \A c \in {4, CrossedCol(wing), CastlingCol(wing)} :
           ~ChessAttacks(chess_board, HomeRow(color), c, opponent(color)) )
    => <<HomeRow(color), CastlingCol(wing)>> \in
         get_possible_moves(Session, chess_board, HomeRow(color), 4, TRUE)

\* C6: a castling is offered only to a king that never moved, with a rook
\* on the corner that never moved
C6_CastlingOnlyWithUnmovedPieces ==
  \A color \in Colors, wing \in Wings :
    CastlingOffered(color, wing)
      => ~KingHasMoved(color) /\ CornerRookAtHome(color, wing)

\* C7: get_legal_moves offers no castling when the king's square, the
\* square it crosses or its destination is attacked by an enemy piece
C7_NoCastlingThroughAttack ==
  \A color \in Colors, wing \in Wings :
    ( /\ chess_board[HomeRow(color)][4] = KingOf(color)
      /\ <<HomeRow(color), CastlingCol(wing)>> \in
           get_legal_moves(Session, chess_board, HomeRow(color), 4) )
    => \A c \in {4, CrossedCol(wing), CastlingCol(wing)} :
         ~ChessAttacks(chess_board, HomeRow(color), c, opponent(color))

\* the diagonal moves onto an empty square that get_legal_moves offers a pawn
EnPassantOffers ==
  UNION {
    {<<p, m>> : m \in
       {n \in get_legal_moves(Session, chess_board, p[1], p[2]) :
          n[2] # p[2] /\ chess_board[n[1]][n[2]] = ""}}
    : p \in {q \in Occupied : lower(chess_board[q[1]][q[2]]) = "p"}}

\* C8: right after a two-rank pawn advance every enemy pawn beside the
\* advanced pawn, whose king is not in check and is not exposed by the
\* capture, is offered the skipped square; and a pawn is offered a diagonal
\* move onto an empty square only then, onto the skipped square, from
\* beside the advanced pawn
C8_EnPassantOnePlyWindow ==
  /\ PawnJustAdvancedTwo =>
       \A dc \in {-1, 1} :
         LET r == LastTo.row
             c == LastTo.col + dc
         IN ( /\ c \in Idx
              /\ lower(chess_board[r][c]) = "p"
              /\ ~is_same_color(chess_board[r][c], chess_board[r][LastTo.col])
              /\ ~is_in_check(Session, chess_board, piece_color(chess_board[r][c]))
              /\ ~KingAttackedAfter(r, c, SkippedSquare[1], SkippedSquare[2]) )
            => SkippedSquare \in get_legal_moves(Session, chess_board, r, c)
  /\ \A o \in EnPassantOffers :
       /\ PawnJustAdvancedTwo
       /\ o[2] = SkippedSquare
       /\ o[1][1] = LastTo.row
       /\ Abs(o[1][2] - LastTo.col) = 1

\* a pawn is offered the en passant capture
C8_Witness == PawnJustAdvancedTwo /\ EnPassantOffers # {}

\* C9: every pseudo-legal destination that leaves the mover's king
\* unattacked once make_move has applied it is a legal move
C9_FilterDiscardsOnlyChecks ==
  \A p \in Occupied :
    \A m \in get_possible_moves(Session, chess_board, p[1], p[2], TRUE) :
      ~KingAttackedAfter(p[1], p[2], m[1], m[2])
        => m \in get_legal_moves(Session, chess_board, p[1], p[2])

\* C10: each ply of the fool's mate is a legal move where it is played, and
\* after the four plies white is to move and is checkmated
C10_FoolsMate ==
  /\ \A k \in 0..3 :
       move_history = SubSeq(FoolsMate, 1, k) =>
         ~NotALegalMove(From(FoolsMate[k + 1]), To(FoolsMate[k + 1]))
  /\ move_history = FoolsMate =>
       current_player = "white" /\ game_status = "checkmate_black_wins"

\* the four plies have been accepted
C10_Witness == move_history = FoolsMate /\ outcome = "success"

\* white king a1, black king c2, black queen b3
StalemateFixture ==
  [r \in Idx |-> [c \in Idx |->
     CASE r = 7 /\ c = 0 -> "K"
       [] r = 6 /\ c = 2 -> "k"
       [] r = 5 /\ c = 1 -> "q"
       [] OTHER -> ""]]

\* no last move, a queen's move, a two-rank advance of a pawn of either colour
FixtureLastMoves ==
  {None,
   <<[piece |-> "q", from_row |-> 5, from_col |-> 3, to_row |-> 5, to_col |-> 1]>>,
   <<[piece |-> "p", from_row |-> 1, from_col |-> 1, to_row |-> 3, to_col |-> 1]>>,
   <<[piece |-> "P", from_row |-> 6, from_col |-> 1, to_row |-> 4, to_col |-> 1]>>}

\* the fixture with every value of the castling flags
FixtureInit ==
  /\ chess_board = StalemateFixture
  /\ current_player = "white"
  /\ selected_square = None
  /\ possible_moves = {}
  /\ move_history = <<>>
  /\ game_status = "active"
  /\ last_move \in FixtureLastMoves
  /\ king_moved \in [Colors -> BOOLEAN]
  /\ rook_moved \in [Colors -> [Wings -> BOOLEAN]]
  /\ captured_pieces = NoCaptures
  /\ outcome = NoCall

FixtureNext == QueryGameStatus

FixtureSpec == FixtureInit /\ [][FixtureNext]_vars

\* C11: on the fixture get_game_status(board, "white") returns "stalemate",
\* white is not in check and no white piece has a legal move, whatever
\* last_move and the castling flags are
C11_StalemateFixture ==
  /\ ~is_in_check(Session, StalemateFixture, "white")
  /\ \A r \in Idx, c \in Idx :
       is_white_piece(StalemateFixture[r][c]) =>
         get_legal_moves(Session, StalemateFixture, r, c) = {}
  /\ (outcome.query = "get_game_status" /\ outcome.input = "white")
       => outcome.result = "stalemate"

\* the status was asked for white with flags that would allow castling
C11_Witness ==
  /\ outcome.query = "get_game_status" /\ outcome.input = "white"
  /\ outcome.result = "stalemate"
  /\ chess_board = StalemateFixture
  /\ ~king_moved["white"] /\ ~rook_moved["white"]["queenside"]
  /\ last_move # None

\* the session as initialize_game_state leaves it
FreshSession ==
  /\ last_move = None
  /\ king_moved = NoFlags
  /\ rook_moved = NoRookFlags
  /\ captured_pieces = NoCaptures

\* C12: on the initial board with a fresh session get_legal_moves of each
\* white pawn is exactly the square one rank ahead and the square two ranks
\* ahead on its file, and nothing on a diagonal
C12_InitialWhitePawnMoves ==
  (chess_board = DEFAULT_BOARD /\ FreshSession) =>
    /\ \A c \in Idx :
         /\ chess_board[6][c] = "P"
         /\ get_legal_moves(Session, chess_board, 6, c) = {<<5, c>>, <<4, c>>}
         /\ \A m \in get_legal_moves(Session, chess_board, 6, c) : m[2] = c
    /\ (outcome = "selected" /\ selected_square[1] = 6) =>
         possible_moves = {<<5, selected_square[2]>>, <<4, selected_square[2]>>}

\* the pawn f2 was selected on the initial board
C12_Witness ==
  /\ chess_board = DEFAULT_BOARD /\ FreshSession
  /\ outcome = "selected"
  /\ selected_square = <<6, 5>>
  /\ possible_moves = {<<5, 5>>, <<4, 5>>}

\* the call recorded in outcome, made once more on the state it left
SecondCall ==
  CASE outcome.query = "get_legal_moves" ->
         get_legal_moves(Session, chess_board, outcome.input[1], outcome.input[2])
    [] outcome.query = "get_possible_moves" ->
         get_possible_moves(Session, chess_board, outcome.input[1], outcome.input[2], TRUE)
    [] outcome.query = "is_valid_move" ->
         is_valid_move(Session, chess_board, outcome.input[1], outcome.input[2],
                       outcome.input[3], outcome.input[4])
    [] outcome.query = "is_in_check" -> is_in_check(Session, chess_board, outcome.input)
    [] outcome.query = "get_game_status" ->
         get_game_status(Session, chess_board, outcome.input)

ReadOnlyQueries ==
  {"get_legal_moves", "get_possible_moves", "is_valid_move", "is_in_check",
   "get_game_status"}

\* C13: a call of get_legal_moves, get_possible_moves, is_valid_move,
\* is_in_check or get_game_status leaves the caller's board, last_move,
\* king_moved, rook_moved, captured_pieces, current_player and move_history
\* as they were, and the same call made again returns the same result
C13_QueriesHaveNoHiddenMutation ==
  /\ [](outcome.query \in ReadOnlyQueries => outcome.result = SecondCall)
  /\ [][outcome'.query \in ReadOnlyQueries =>
          UNCHANGED <<chess_board, last_move, king_moved, rook_moved,
                      captured_pieces, current_player, move_history>>]_vars

\* get_legal_moves was called for a piece and discarded some of its
\* pseudo-legal moves after simulating them
C13_Witness ==
  /\ outcome.query = "get_legal_moves"
  /\ outcome.result # {}
  /\ outcome.result #
       get_possible_moves(Session, chess_board, outcome.input[1], outcome.input[2], TRUE)

\* a step in which handle_piece_selection accepted a move
Accepted == Len(move_history') = Len(move_history) + 1

WellFormed(coordinate) ==
  /\ Len(coordinate) = 2
  /\ coordinate[1] \in {FileLetters[i] : i \in 1..8}
  /\ coordinate[2] \in {"1", "2", "3", "4", "5", "6", "7", "8"}

\* C15: validate_coordinate returns (False, non-empty reason) for every
\* string that is not a file letter a-h followed by a rank digit 1-8, the
\* empty string included, and for every string it accepts
\* coordinate_to_position succeeds with (8 - rank digit, file letter - 'a'),
\* both in 0..7
C15_ValidationNeverSilent ==
  outcome.query = "validate_coordinate" =>
    LET coordinate == outcome.input
        valid == outcome.result.valid
        position == outcome.result.position
    IN /\ ~WellFormed(coordinate) => (~valid.is_valid /\ valid.error # "")
       /\ valid.is_valid =>
            /\ position.ok
            /\ position.row = 8 - int(coordinate[2])
            /\ position.col = ord_minus_a(coordinate[1])
            /\ position.row \in Idx /\ position.col \in Idx

\* C16: on a board that holds no king of the colour asked about, is_in_check
\* ends with a NoKing error and returns no boolean, and get_game_status
\* reports that failure and returns neither "active" nor "stalemate"
C16_NoKingIsAnError ==
  /\ (/\ outcome.query = "is_in_check"
      /\ get_king_position(chess_board, outcome.input) = None)
       => outcome.result \notin BOOLEAN
  /\ (/\ outcome.query = "get_game_status"
      /\ get_king_position(chess_board, outcome.input) = None)
       => outcome.result \notin {"active", "stalemate"}

\* the square named by a well-formed coordinate is empty or holds a piece of
\* the player who is not to move
EmptyOrOpponents(coordinate) ==
  LET pos == coordinate_to_position(coordinate)
      piece == chess_board[pos.row][pos.col]
  IN piece = "" \/ piece_color(piece) # current_player

\* the destinations typed with the probes
ProbeDestinations == {p[2] : p \in Probes}

\* C17: for an empty square or a square of the player not to move,
\* validate_coordinate_with_piece and validate_move return is_valid = False
\* with a reason, and handle_piece_selection ends with an error and changes
\* nothing; every accepted move moves a piece of current_player
C17_WrongSquareRejected ==
  /\ [](\A coordinate \in Squares :
          EmptyOrOpponents(coordinate) =>
            /\ ~validate_coordinate_with_piece(coordinate).is_valid
            /\ validate_coordinate_with_piece(coordinate).error # ""
            /\ \A to_coord \in ProbeDestinations \ {<<>>} :
                 /\ ~validate_move(Session, coordinate, to_coord).is_valid
                 /\ validate_move(Session, coordinate, to_coord).error # "")
  /\ [][\A p \in Probes :
          (/\ WellFormed(p[1])
           /\ EmptyOrOpponents(p[1])
           /\ handle_piece_selection(p[1], p[2]))
            => /\ outcome' = "error"
               /\ UNCHANGED <<Game, selected_square, possible_moves>>]_vars
  /\ [][Accepted =>
          LET from_pos == coordinate_to_position(From(move_history'[Len(move_history')]))
              piece == chess_board[from_pos.row][from_pos.col]
          IN /\ piece # ""
             /\ piece_color(piece) = current_player
             /\ current_player' = opponent(current_player)]_vars

\* black is to move, d5 is empty and f2 is white's, and a call was rejected
C17_Witness ==
  /\ outcome = "error"
  /\ current_player = "black"
  /\ move_history = <<M("f", "2", "f", "3")>>
  /\ EmptyOrOpponents(<<"d", "5">>)
  /\ EmptyOrOpponents(<<"f", "2">>)
  /\ ~validate_coordinate_with_piece(<<"f", "2">>).is_valid

\* the from- and to-square of the ply accepted in this step
PlyFrom == coordinate_to_position(From(move_history'[Len(move_history')]))

PlyTo == coordinate_to_position(To(move_history'[Len(move_history')]))

\* the accepted ply moves a pawn diagonally onto an empty square
PawnTakesOnEmpty ==
  /\ Accepted
  /\ lower(chess_board[PlyFrom.row][PlyFrom.col]) = "p"
  /\ PlyFrom.col # PlyTo.col
  /\ chess_board[PlyTo.row][PlyTo.col] = ""

\* C18: when the accepted ply is an en passant capture, the enemy pawn on
\* the mover's rank and the destination file has just advanced two ranks;
\* the new board has the capturing pawn on the destination, the from-square
\* and that enemy pawn's square empty and every other square as before, and
\* exactly that pawn is appended to captured_pieces of the mover
C18_EnPassantApplied ==
  [][PawnTakesOnEmpty =>
       LET pawn == chess_board[PlyFrom.row][PlyFrom.col]
           enemy_pawn == IF pawn = "P" THEN "p" ELSE "P"
       IN /\ PawnJustAdvancedTwo
          /\ LastTo.row = PlyFrom.row /\ LastTo.col = PlyTo.col
          /\ chess_board[PlyFrom.row][PlyTo.col] = enemy_pawn
          /\ chess_board' =
               [r \in Idx |-> [c \in Idx |->
                  IF r = PlyTo.row /\ c = PlyTo.col THEN pawn
                  ELSE IF r = PlyFrom.row /\ c \in {PlyFrom.col, PlyTo.col} THEN ""
                  ELSE chess_board[r][c]]]
          /\ captured_pieces' =
               [captured_pieces EXCEPT ![current_player] = Append(@, enemy_pawn)]]_vars

\* white has taken the d-pawn en passant: e5xd6
C18_Witness ==
  /\ move_history = EnPassant
  /\ chess_board[2][3] = "P"
  /\ chess_board[3][3] = "" /\ chess_board[3][4] = ""
  /\ captured_pieces = [white |-> <<"p">>, black |-> <<>>]

\* the accepted ply moves a king two files along its row
KingMovesTwoFiles ==
  /\ Accepted
  /\ lower(chess_board[PlyFrom.row][PlyFrom.col]) = "k"
  /\ Abs(PlyTo.col - PlyFrom.col) = 2

\* C19: when the accepted ply is a castling move, the king stands on its
\* home square and the rook of that wing in its corner; the new board has the
\* king on its destination, that rook on the square the king crossed (f-file
\* kingside, d-file queenside), the corner and the king's square empty, every
\* other square as before, and king_moved of the colour is true
C19_CastlingApplied ==
  [][KingMovesTwoFiles =>
       LET color == current_player
           row == HomeRow(color)
           wing == IF PlyTo.col > PlyFrom.col THEN "kingside" ELSE "queenside"
       IN /\ PlyFrom.row = row /\ PlyTo.row = row
          /\ PlyFrom.col = 4 /\ PlyTo.col = CastlingCol(wing)
          /\ chess_board[row][4] = KingOf(color)
          /\ chess_board[row][CornerCol(wing)] = RookOf(color)
          /\ chess_board' =
               [r \in Idx |-> [c \in Idx |->
                  IF r = row /\ c = CastlingCol(wing) THEN KingOf(color)
                  ELSE IF r = row /\ c = CrossedCol(wing) THEN RookOf(color)
                  ELSE IF r = row /\ c \in {4, CornerCol(wing)} THEN ""
                  ELSE chess_board[r][c]]]
          /\ king_moved'[color]
          /\ king_moved'[opponent(color)] = king_moved[opponent(color)]]_vars

\* white has castled on the queenside: king c1, rook d1, a1 and e1 empty
C19_Witness ==
  /\ move_history = SubSeq(QueensideCastle, 1, 9)
  /\ chess_board[7][2] = "K" /\ chess_board[7][3] = "R"
  /\ chess_board[7][0] = "" /\ chess_board[7][4] = ""
  /\ king_moved["white"]

\* the squares whose piece of the given colour is gone after this step
Disappeared(color) ==
  {sq \in Idx \X Idx :
     /\ chess_board[sq[1]][sq[2]] # ""
     /\ piece_color(chess_board[sq[1]][sq[2]]) = color
     /\ chess_board'[sq[1]][sq[2]] # chess_board[sq[1]][sq[2]]}

PiecesOnBoard == Cardinality({sq \in Idx \X Idx : chess_board[sq[1]][sq[2]] # ""})

\* C20: an accepted move leaves the ledger of the colour that did not move
\* unchanged and appends to the mover's ledger exactly the enemy piece that
\* left the board on that ply (from the destination, or the pawn taken en
\* passant), nothing when none left; no step but reset_game removes or
\* reorders an entry; the pieces on the board and the two ledgers count 32
C20_CaptureLedger ==
  /\ [](PiecesOnBoard + Len(captured_pieces["white"])
          + Len(captured_pieces["black"]) = 32)
  /\ [][Accepted =>
          LET mover == current_player
              gone == Disappeared(opponent(mover))
          IN /\ captured_pieces'[opponent(mover)] = captured_pieces[opponent(mover)]
             /\ Disappeared(mover) = {<<PlyFrom.row, PlyFrom.col>>}
                  \cup (IF KingMovesTwoFiles
                        THEN {<<PlyFrom.row, IF PlyTo.col = 6 THEN 7 ELSE 0>>} ELSE {})
             /\ gone \subseteq {<<PlyTo.row, PlyTo.col>>, <<PlyFrom.row, PlyTo.col>>}
             /\ Cardinality(gone) <= 1
             /\ gone = {} => captured_pieces'[mover] = captured_pieces[mover]
             /\ \A sq \in gone :
                  captured_pieces'[mover] =
                    Append(captured_pieces[mover], chess_board[sq[1]][sq[2]])]_vars
  /\ [][\/ reset_game
        \/ \A color \in Colors :
             IsPrefix(captured_pieces[color], captured_pieces'[color])]_vars

\* both colours have captured, black en passant
C20_Witness ==
  /\ move_history = KingTaken
  /\ captured_pieces = [white |-> <<"k">>, black |-> <<"P">>]
  /\ PiecesOnBoard = 30

\* the squares of the far rank that hold a pawn that has crossed the board
FarRankPawns ==
  {sq \in Idx \X Idx :
     \/ sq[1] = 0 /\ chess_board[sq[1]][sq[2]] = "P"
     \/ sq[1] = 7 /\ chess_board[sq[1]][sq[2]] = "p"}

\* C21: make_move puts on the destination the very piece it took from the
\* from-square, a pawn on the far rank included; a pawn on the far rank has no
\* move in get_possible_moves and stays where it is, as a pawn, until it is
\* taken or the game is reset
C21_NoPromotion ==
  /\ [](\A sq \in FarRankPawns :
          /\ get_possible_moves(Session, chess_board, sq[1], sq[2], TRUE) = {}
          /\ get_legal_moves(Session, chess_board, sq[1], sq[2]) = {})
  /\ [][Accepted =>
          /\ chess_board'[PlyTo.row][PlyTo.col] = chess_board[PlyFrom.row][PlyFrom.col]
          /\ \A sq \in FarRankPawns :
               \/ chess_board'[sq[1]][sq[2]] = chess_board[sq[1]][sq[2]]
               \/ sq = <<PlyTo.row, PlyTo.col>>]_vars
  /\ [][(FarRankPawns # {} /\ ~Accepted /\ ~reset_game) =>
          chess_board' = chess_board]_vars

\* the white pawn has just taken on g8 and is still a pawn
C21_Witness ==
  /\ move_history = SubSeq(FarRank, 1, 9)
  /\ chess_board[0][6] = "P"
  /\ <<0, 6>> \in FarRankPawns

\* how far the calls in progress have come: the pc of each frame from the
\* outermost in, and past the innermost a number above every pc (no call
\* makes more than 64 calls)
Progress(stack) ==
  [i \in 1..MaxStack |-> IF i <= Len(stack) THEN stack[i].pc ELSE 65]

\* lexicographic order
Before(a, b) ==
  \E i \in 1..MaxStack : a[i] < b[i] /\ \A j \in 1..(i - 1) : a[j] = b[j]

\* C22: below a call of is_square_attacked there is never a call of
\* get_king_moves, and the call it makes is get_possible_moves with
\* include_castling = False; the stack of calls under get_legal_moves and
\* get_game_status is never more than nine deep, no call makes more than 64
\* calls, and every step of the evaluation moves it forward in a finite order,
\* so that every call returns
C22_AttackProbeTerminates ==
  /\ [](\A i \in 1..Len(CallStack) :
          CallStack[i].fn = "is_square_attacked" =>
            \A j \in (i + 1)..Len(CallStack) :
              /\ CallStack[j].fn # "get_king_moves"
              /\ j = i + 1 =>
                   /\ CallStack[j].fn = "get_possible_moves"
                   /\ CallStack[j].args[3] = FALSE)
  /\ [](Len(CallStack) <= 9)
  /\ [](\A i \in 1..Len(CallStack) : CallStack[i].pc <= 64)
  /\ [][Before(Progress(CallStack), Progress(CallStack'))]_vars

\* get_king_moves of a king that may castle is in progress, and the probe
\* has come to the other king, which has not moved either
C22_Witness ==
  /\ Len(CallStack) >= 5
  /\ \E i \in 1..Len(CallStack) : CallStack[i].fn = "get_king_moves"
  /\ LET top == CallStack[Len(CallStack)]
     IN /\ top.fn = "get_possible_moves"
        /\ lower(top.board[top.args[1]][top.args[2]]) = "k"
        /\ top.args[3] = FALSE
        /\ ~king_moved[piece_color(top.board[top.args[1]][top.args[2]])]
        /\ top.args[1] \in {0, 7} /\ top.args[2] = 4

\* C23: current_player is "white" exactly when move_history has an even
\* number of entries; an accepted move passes the turn and appends one entry;
\* a selection without destination changes neither, and nothing but an
\* accepted move or reset_game does
C23_TurnAlternation ==
  /\ [](current_player \in Colors)
  /\ [](current_player = "white" <=> Len(move_history) % 2 = 0)
  /\ [][Accepted =>
          /\ current_player' = opponent(current_player)
          /\ SubSeq(move_history', 1, Len(move_history)) = move_history]_vars
  /\ [][\A p \in Probes :
          (p[2] = <<>> /\ handle_piece_selection(p[1], p[2]))
            => UNCHANGED <<current_player, move_history>>]_vars
  /\ [][(current_player' # current_player \/ move_history' # move_history)
          => (Accepted \/ reset_game)]_vars

\* black has selected f7 after f2-f3: the turn and the history are as before
C23_Witness ==
  /\ outcome = "selected"
  /\ selected_square = <<1, 5>>
  /\ current_player = "black"
  /\ move_history = <<M("f", "2", "f", "3")>>

\* C24: a terminal state is absorbing.  While game_status is a checkmate
\* status or "stalemate", no square of the board passes the handler's
\* validation with a legal destination, so handle_piece_selection,
\* whatever coordinates it is given, accepts nothing; every step taken
\* there leaves chess_board, current_player, move_history and game_status
\* as they are, unless it is reset_game, and reset_game leaves the
\* terminal state.
Terminal ==
  game_status \in {"checkmate_white_wins", "checkmate_black_wins", "stalemate"}

NothingToPlay ==
  \A from_coord \in Squares :
    validate_coordinate_with_piece(from_coord).is_valid
      => get_legal_moves(Session, chess_board,
                         coordinate_to_position(from_coord).row,
                         coordinate_to_position(from_coord).col) = {}

C24_TerminalAbsorbing ==
  /\ [](Terminal => NothingToPlay)
  /\ [][(Terminal /\ ~reset_game)
          => UNCHANGED <<chess_board, current_player, move_history,
                         game_status>>]_vars
  /\ [][(Terminal /\ reset_game) => ~Terminal']_vars

\* a call made after fool's mate has been rejected
C24_Witness ==
  /\ game_status = "checkmate_black_wins"
  /\ move_history = FoolsMate
  /\ outcome = "error"

\* C25: kings are never captured.  In every state the board holds exactly
\* one white king and one black king, no king is in captured_pieces, and
\* after an accepted move the player who has just moved is not in check.
KingsOnBoard(king) ==
  Cardinality({sq \in Idx \X Idx : chess_board[sq[1]][sq[2]] = king})

KingInLedger ==
  \E color \in Colors :
    \E i \in 1..Len(captured_pieces[color]) :
      lower(captured_pieces[color][i]) = "k"

C25_KingsNeverCaptured ==
  /\ KingsOnBoard("K") = 1
  /\ KingsOnBoard("k") = 1
  /\ ~KingInLedger
  /\ move_history # <<>>
       => ~is_in_check(Session, chess_board, opponent(current_player))

(***************************************************************************)
(* The lists.  DEFAULT_BOARD is a module-level list and the session's      *)
(* chess_board is a reference to a list.  Here outcome records the         *)
(* operation, the session it found, and the lists as it leaves them: what  *)
(* the module-level list holds, and whether the session's board is that    *)
(* very list.                                                              *)
(***************************************************************************)
Lists == outcome.result

Found ==
  [last_move |-> last_move, king_moved |-> king_moved, rook_moved |-> rook_moved,
   captured_pieces |-> captured_pieces, move_history |-> move_history,
   game_status |-> game_status]

\* make_move, the two lists when it returns: board is the caller's, new_board
\* the deep copy the assignments go to
make_move_objects(ss, board, from_row, from_col, to_row, to_col) ==
  [board |-> board,
   new_board |-> board_after_move(ss, board, from_row, from_col, to_row, to_col)]

\* the last move survives the reset
reset_game_objects_KeepsLastMove(ss, lists) ==
  LET copied == lists.DEFAULT_BOARD
  IN [chess_board |-> board_after_has_legal_moves(ss, copied, "white", 0),
      current_player |-> "white",
      selected_square |-> None,
      possible_moves |-> {},
      move_history |-> <<>>,
      game_status |-> get_game_status(ss, copied, "white"),
      last_move |-> ss.last_move,
      king_moved |-> NoFlags,
      rook_moved |-> NoRookFlags,
      captured_pieces |-> NoCaptures,
      lists |-> [DEFAULT_BOARD |-> lists.DEFAULT_BOARD, same_list |-> FALSE]]

\* reset_game, the session and the lists it leaves: the session's board is
\* a deep copy of the module-level list, get_game_status is given the copy
\* and the session ss as it was before the reset
reset_game_objects(ss, lists) ==
  LET copied == lists.DEFAULT_BOARD
  IN [chess_board |-> board_after_has_legal_moves(ss, copied, "white", 0),
      current_player |-> "white",
      selected_square |-> None,
      possible_moves |-> {},
      move_history |-> <<>>,
      game_status |-> get_game_status(ss, copied, "white"),
      last_move |-> None,
      king_moved |-> NoFlags,
      rook_moved |-> NoRookFlags,
      captured_pieces |-> NoCaptures,
      lists |-> [DEFAULT_BOARD |-> lists.DEFAULT_BOARD, same_list |-> FALSE]]

\* initialize_game_state on an empty session
ListsInit ==
  /\ chess_board = DEFAULT_BOARD
  /\ current_player = "white"
  /\ selected_square = None
  /\ possible_moves = {}
  /\ move_history = <<>>
  /\ game_status = "active"
  /\ last_move = None
  /\ king_moved = NoFlags
  /\ rook_moved = NoRookFlags
  /\ captured_pieces = NoCaptures
  /\ outcome = [query |-> "initialize_game_state",
                input |-> [last_move |-> None, king_moved |-> NoFlags,
                           rook_moved |-> NoRookFlags, captured_pieces |-> NoCaptures,
                           move_history |-> <<>>, game_status |-> "active"],
                result |-> [DEFAULT_BOARD |-> DEFAULT_BOARD, same_list |-> FALSE]]

\* handle_piece_selection with a destination it accepts: get_legal_moves is
\* given the session's list, make_move returns a new list, the session
\* refers to it from then on and get_game_status is given it
MoveOnLists(from_coord, to_coord) ==
  LET from_pos == coordinate_to_position(from_coord)
      to_pos == coordinate_to_position(to_coord)
      filtered == board_after_get_legal_moves(Session, chess_board,
                                              from_pos.row, from_pos.col)
      mo == make_move_objects(Session, filtered, from_pos.row, from_pos.col,
                              to_pos.row, to_pos.col)
      mm == make_move(Session, filtered, from_pos.row, from_pos.col,
                      to_pos.row, to_pos.col)
      next_player == IF current_player = "white" THEN "black" ELSE "white"
  IN /\ validate_coordinate_with_piece(from_coord).is_valid
     /\ from_pos.ok
     /\ to_coord # <<>>
     /\ validate_coordinate(to_coord).is_valid
     /\ <<to_pos.row, to_pos.col>> \in
          get_legal_moves(Session, chess_board, from_pos.row, from_pos.col)
     /\ chess_board' = board_after_has_legal_moves(mm.ss, mo.new_board, next_player, 0)
     /\ last_move' = mm.ss.last_move
     /\ king_moved' = mm.ss.king_moved
     /\ rook_moved' = mm.ss.rook_moved
     /\ captured_pieces' = mm.ss.captured_pieces
     /\ move_history' = Append(move_history, from_coord \o <<"-">> \o to_coord)
     /\ current_player' = next_player
     /\ game_status' = get_game_status(mm.ss, mo.new_board, next_player)
     /\ selected_square' = None
     /\ possible_moves' = {}
     /\ outcome' = [query |-> "handle_piece_selection",
                    input |-> Found,
                    result |-> [DEFAULT_BOARD |-> IF Lists.same_list THEN mo.board
                                                  ELSE Lists.DEFAULT_BOARD,
                                same_list |-> FALSE]]

\* the games played on the lists: a mate, en passant, both castlings, a
\* king taken
ListGames == {<<>>, FoolsMate, EnPassant, EpPin, KingTaken, Castle, BlackCastle}

\* the player follows a game
ListsScriptedMove ==
  \E g \in ListGames :
    /\ Len(move_history) < Len(g)
    /\ IsPrefix(move_history, g)
    /\ MoveOnLists(From(g[Len(move_history) + 1]), To(g[Len(move_history) + 1]))

\* the player continues a finished game with any move the engine accepts
ListsFreeMove ==
  /\ \E g \in ListGames : IsPrefix(g, move_history) /\ Len(move_history) - Len(g) < MaxFree
  /\ \E from_coord \in Squares :
       LET pos == coordinate_to_position(from_coord)
       IN /\ validate_coordinate_with_piece(from_coord).is_valid
          /\ \E m \in get_legal_moves(Session, chess_board, pos.row, pos.col) :
               MoveOnLists(from_coord, position_to_coordinate(m[1], m[2]))

\* the "Reset Game" button of main
ListsReset ==
  LET r == reset_game_objects(Session, Lists)
  IN /\ chess_board' = r.chess_board
     /\ current_player' = r.current_player
     /\ selected_square' = r.selected_square
     /\ possible_moves' = r.possible_moves
     /\ move_history' = r.move_history
     /\ game_status' = r.game_status
     /\ last_move' = r.last_move
     /\ king_moved' = r.king_moved
     /\ rook_moved' = r.rook_moved
     /\ captured_pieces' = r.captured_pieces
     /\ outcome' = [query |-> "reset_game", input |-> Found, result |-> r.lists]

ListsNext == ListsScriptedMove \/ ListsFreeMove \/ ListsReset

ListsSpec == ListsInit /\ [][ListsNext]_vars

\* C26: reset_game restores the start state from any state.  After it
\* chess_board equals DEFAULT_BOARD, current_player is "white",
\* move_history is empty, selected_square is None, possible_moves is empty,
\* last_move is None, every king_moved and rook_moved flag is false, both
\* captured_pieces lists are empty and game_status is "active"; and the
\* module-level list DEFAULT_BOARD holds, in every state, what it held at
\* the start.
StartState ==
  /\ chess_board = DEFAULT_BOARD
  /\ current_player = "white"
  /\ move_history = <<>>
  /\ selected_square = None
  /\ possible_moves = {}
  /\ last_move = None
  /\ \A color \in Colors : ~king_moved[color]
  /\ \A color \in Colors : \A wing \in Wings : ~rook_moved[color][wing]
  /\ \A color \in Colors : captured_pieces[color] = <<>>
  /\ game_status = "active"

C26_ResetRestoresStart ==
  /\ outcome.query = "reset_game" => StartState
  /\ Lists.DEFAULT_BOARD = DEFAULT_BOARD

\* a reset after d2-d4 of the game EpPin: the last move was a two-rank pawn
\* advance, the black king and a white rook had moved
C26_Witness ==
  /\ outcome.query = "reset_game"
  /\ outcome.input.move_history = EpPin
  /\ outcome.input.last_move # None
  /\ outcome.input.king_moved["black"]
  /\ outcome.input.rook_moved["white"]["queenside"]
  /\ chess_board = DEFAULT_BOARD
====
